---------------------------- MODULE Spec2Model ----------------------------
(***************************************************************************)
(* A model of the codeIDE backend (src/index.js): the User and Project     *)
(* collections, the token gate and the eight route handlers.               *)
(*                                                                         *)
(* Every handler is one action, except PUT /project/:projectId, which      *)
(* reads the store (findById) and writes it (save) at two different        *)
(* instants; other requests may run between the two.                       *)
(*                                                                         *)
(* Time is counted in ticks, TicksPerSec to the second: jsonwebtoken       *)
(* stamps and compares whole seconds (Math.floor(Date.now() / 1000)).      *)
(***************************************************************************)
EXTENDS Naturals, Sequences, FiniteSets, Bags, TLC

VARIABLES
    users,       \* the User collection, in insertion order
    registered,  \* history: the email and the clear password of each user record
    clock,       \* Date.now(), in ticks
    wallet,      \* the tokens clients hold, each with the tick of its issuance
    projects,    \* the Project collection: a set of documents
    nextId,      \* the number of _id values the Project collection has assigned
    created,     \* history: per project _id, the caller and the name of its create
    deleted,     \* history: the _id values a DELETE answered 200 for
    applied,     \* history: per project _id, the bodies of the PUTs that saved it
    lastSaved,   \* history: per project _id, the body of the PUT that saved it last
    pending,     \* the PUT requests between their findById and their save
    resp         \* the last response sent

vars == << users, registered, clock, wallet, projects, nextId, created,
           deleted, applied, lastSaved, pending, resp >>

authVars == << users, registered >>
projVars == << projects, nextId, created, deleted, applied, lastSaved, pending >>

---------------------------------------------------------------------------
(* Bounds of the model *)

\* user records the User collection may hold
MaxUsers == 2
\* projects ever created
MaxProjects == 2
\* PUT requests in flight at once, on one project
MaxConcurrent == 2
\* clock ticks to the second
TicksPerSec == 2
\* the last tick at which a client logs in, where the clock runs
MaxLoginTick == 3

(* Program constants *)

\* expiresIn: "1h", in seconds
ExpiresIn == 3600

---------------------------------------------------------------------------
(* Values *)

\* JavaScript's undefined: a field the request body or the document lacks
Absent == "<undefined>"

JWT_SECRET == "process.env.JWT_SECRET"

\* The string form of the n-th _id a collection assigns
ObjectId(n) == ToString(n)

\* A request parameter that is no ObjectId: findById throws a CastError on it
MalformedId == "not-an-object-id"

Emails == {"ann@x", "bob@x"}
Passwords == {"pw1", "pw2"}
Usernames == {"ann", "bob"}
Salts == {"s1"}

NoToken ==
    [form |-> "absent", userId |-> Absent, username |-> Absent,
     iat |-> 0, exp |-> 0, key |-> Absent]

GarbageToken ==
    [form |-> "malformed", userId |-> Absent, username |-> Absent,
     iat |-> 0, exp |-> 0, key |-> Absent]

NoDoc ==
    [_id |-> Absent, name |-> Absent, userId |-> Absent,
     htmlCode |-> Absent, cssCode |-> Absent, jsCode |-> Absent]

CodeFields == {"htmlCode", "cssCode", "jsCode"}

Response(op, status, kind, docs, token) ==
    [op |-> op, status |-> status, kind |-> kind, docs |-> docs, token |-> token]

NoResponse == Response("none", 0, "none", << >>, NoToken)

\* The permutations of a finite set, as sequences
Perms(S) ==
    { s \in [1..Cardinality(S) -> S] : \A i, j \in 1..Cardinality(S) : s[i] = s[j] => i = j }

---------------------------------------------------------------------------
(* bcryptjs and jsonwebtoken, as the handlers use them *)

\* bcrypt.hash(password, 10): a digest carrying its salt
bcryptHash(password, salt) == [salt |-> salt, of |-> password]

\* bcrypt.compare(password, digest): rehash with the digest's salt
bcryptCompare(password, digest) == bcryptHash(password, digest.salt) = digest

\* jwt.sign({userId, username}, secret, {expiresIn: "1h"}) at tick `now`
jwtSign(user, secret, now) ==
    [form |-> "jwt", userId |-> user._id, username |-> user.username,
     iat |-> now \div TicksPerSec,
     exp |-> (now \div TicksPerSec) + ExpiresIn,
     key |-> secret]

\* jwt.verify with the expiry compared by > in place of >=: a token still
\* accepted during the second its exp names
jwtVerifyLate(token, secret, now) ==
    IF token.form # "jwt" THEN "JsonWebTokenError"
    ELSE IF token.key # secret THEN "JsonWebTokenError"
    ELSE IF (now \div TicksPerSec) > token.exp THEN "TokenExpiredError"
    ELSE "ok"

\* jwt.verify(token, secret, callback): the callback's err
jwtVerify(token, secret, now) ==
    IF token.form # "jwt" THEN "JsonWebTokenError"
    ELSE IF token.key # secret THEN "JsonWebTokenError"
    ELSE IF (now \div TicksPerSec) >= token.exp THEN "TokenExpiredError"
    ELSE "ok"

\* authenticateToken decoding the token without verifying it (jwt.decode in
\* place of jwt.verify): any well-formed token passes
authenticateTokenDecodeOnly(token, now) ==
    IF token = NoToken THEN 401
    ELSE IF token.form # "jwt" THEN 403
    ELSE 0

\* authenticateToken: the status it answers with, or 0 when it calls next()
authenticateToken(token, now) ==
    IF token = NoToken THEN 401
    ELSE IF jwtVerify(token, JWT_SECRET, now) # "ok" THEN 403
    ELSE 0

Rejected(op, status) == Response(op, status, "none", << >>, NoToken)

---------------------------------------------------------------------------
(* POST /register *)

Register(username, email, password, salt) ==
    /\ Len(users) < MaxUsers
    /\ IF password = Absent
       THEN \* bcrypt.hash throws on a missing password
            /\ resp' = Response("register", 400, "error", << >>, NoToken)
            /\ UNCHANGED authVars
       ELSE /\ users' = Append(users,
                   [_id |-> ObjectId(Len(users) + 1), username |-> username,
                    email |-> email, password |-> bcryptHash(password, salt)])
            /\ registered' = Append(registered, [email |-> email, password |-> password])
            /\ resp' = Response("register", 201, "message", << >>, NoToken)
    /\ UNCHANGED << clock, wallet, projVars >>

(* POST /login *)

\* User.findOne({email}): some record with that email (no sort is given)
FindByEmail(email) == { i \in 1..Len(users) : users[i].email = email }

LoginAs(email, password, i) ==
    IF ~bcryptCompare(password, users[i].password)
    THEN /\ resp' = Response("login", 401, "error", << >>, NoToken)
         /\ UNCHANGED wallet
    ELSE LET token == jwtSign(users[i], JWT_SECRET, clock) IN
         /\ resp' = Response("login", 200, "token", << >>, token)
         \* the client of that user keeps the new token in place of its last one
         /\ wallet' = { w \in wallet : w.token.userId # token.userId }
                          \cup {[token |-> token, at |-> clock]}

Login(email, password) ==
    /\ IF FindByEmail(email) = {}
       THEN /\ resp' = Response("login", 404, "error", << >>, NoToken)
            /\ UNCHANGED wallet
       ELSE IF password = Absent
       THEN \* bcrypt.compare throws on a missing password
            /\ resp' = Response("login", 400, "error", << >>, NoToken)
            /\ UNCHANGED wallet
       ELSE \E i \in FindByEmail(email) : LoginAs(email, password, i)
    /\ UNCHANGED << authVars, clock, projVars >>

---------------------------------------------------------------------------
(* Registration and login alone *)

InitAuth ==
    /\ users = << >>
    /\ registered = << >>
    /\ clock = 0
    /\ wallet = {}
    /\ projects = {}
    /\ nextId = 0
    /\ created = << >>
    /\ deleted = {}
    /\ applied = << >>
    /\ lastSaved = << >>
    /\ pending = EmptyBag
    /\ resp = NoResponse

NextAuth ==
    \/ \E u \in Usernames, e \in Emails, p \in Passwords \cup {Absent}, s \in Salts :
          Register(u, e, p, s)
    \/ \E e \in Emails, p \in Passwords \cup {Absent} : Login(e, p)

SpecAuth == InitAuth /\ [][NextAuth]_vars

---------------------------------------------------------------------------
(* The Project collection *)

Body(name, userId, htmlCode, cssCode, jsCode) ==
    [name |-> name, userId |-> userId,
     htmlCode |-> htmlCode, cssCode |-> cssCode, jsCode |-> jsCode]

\* x || "" on a string or undefined
OrEmpty(x) == IF x = Absent \/ x = "" THEN "" ELSE x

\* The document of collection `coll` with that _id, or null (NoDoc)
findIn(coll, id) ==
    IF \E d \in coll : d._id = id
    THEN CHOOSE d \in coll : d._id = id
    ELSE NoDoc

\* Project.findById(id) on a well-formed id
findById(id) == findIn(projects, id)

\* Project.find({userId}).sort({createdAt: -1}): ProjectSchema declares no
\* createdAt (no timestamps option), so every document has the same sort key
\* and the store may return the matching documents in any order
findSorted(userId) == Perms({ d \in projects : d.userId = userId })

\* new Project(req.body) with the caller's id only as a default: the body's
\* userId wins when it has one
newProjectBodyOwner(id, body, user) ==
    [_id |-> id, name |-> body.name,
     userId |-> IF body.userId # Absent THEN body.userId ELSE user.userId,
     htmlCode |-> body.htmlCode, cssCode |-> body.cssCode, jsCode |-> body.jsCode]

\* new Project({name, userId: req.user.userId, htmlCode, cssCode, jsCode})
newProject(id, body, user) ==
    [_id |-> id, name |-> body.name, userId |-> user.userId,
     htmlCode |-> body.htmlCode, cssCode |-> body.cssCode, jsCode |-> body.jsCode]

\* The assignments guarded by `if (htmlCode !== undefined)`: a field the body
\* lacks keeps its value
assignCodeKeepAbsent(doc, body) ==
    [doc EXCEPT !.htmlCode = IF body.htmlCode = Absent THEN @ ELSE body.htmlCode,
                !.cssCode = IF body.cssCode = Absent THEN @ ELSE body.cssCode,
                !.jsCode = IF body.jsCode = Absent THEN @ ELSE body.jsCode]

\* project.htmlCode = htmlCode || ""; and the same for cssCode and jsCode
assignCode(doc, body) ==
    [doc EXCEPT !.htmlCode = OrEmpty(body.htmlCode),
                !.cssCode = OrEmpty(body.cssCode),
                !.jsCode = OrEmpty(body.jsCode)]

\* The modified paths with the assignment to jsCode left out of the handler
modifiedPathsNoJs(read, doc) == { f \in {"htmlCode", "cssCode"} : doc[f] # read[f] }

\* The paths Mongoose marks modified: those whose value differs from the one read
modifiedPaths(read, doc) == { f \in CodeFields : doc[f] # read[f] }

\* save() as an upsert: a document the store no longer holds is written back
savedDocUpsert(read, doc) ==
    LET stored == findById(doc._id) IN
    IF stored = NoDoc THEN doc
    ELSE [f \in DOMAIN stored |->
            IF f \in modifiedPaths(read, doc) THEN doc[f] ELSE stored[f]]

\* doc.save() of a document read earlier: an updateOne({_id}, {$set: modified
\* paths}); the stored document after it, or NoDoc when no document has that _id
\* (save then throws DocumentNotFoundError)
savedDoc(read, doc) ==
    LET stored == findById(doc._id) IN
    IF stored = NoDoc THEN NoDoc
    ELSE [f \in DOMAIN stored |->
            IF f \in modifiedPaths(read, doc) THEN doc[f] ELSE stored[f]]

\* The three code values a PUT body asks for
Requested(body) == [f \in CodeFields |-> OrEmpty(body[f])]

Code(doc) == [f \in CodeFields |-> doc[f]]

\* The position of an _id in the order of creation
IdNum(id) == CHOOSE n \in 1..nextId : ObjectId(n) = id

NoSave == [f \in CodeFields |-> Absent]

---------------------------------------------------------------------------
(* GET /protected *)

Protected(token) ==
    /\ IF authenticateToken(token, clock) # 0
       THEN resp' = Rejected("protected", authenticateToken(token, clock))
       ELSE resp' = Response("protected", 200, "message", << >>, NoToken)
    /\ UNCHANGED << authVars, clock, wallet, projVars >>

(* GET /projects *)

List(token) ==
    /\ IF authenticateToken(token, clock) # 0
       THEN resp' = Rejected("list", authenticateToken(token, clock))
       ELSE \E found \in findSorted(token.userId) :
               resp' = Response("list", 200, "projects", found, NoToken)
    /\ UNCHANGED << authVars, clock, wallet, projVars >>

(* GET /project/:projectId *)

Get(token, id) ==
    /\ IF authenticateToken(token, clock) # 0
       THEN resp' = Rejected("get", authenticateToken(token, clock))
       ELSE IF id = MalformedId
       THEN resp' = Response("get", 500, "error", << >>, NoToken)
       ELSE IF findById(id) = NoDoc
       THEN resp' = Response("get", 200, "null", << >>, NoToken)
       ELSE resp' = Response("get", 200, "project", << findById(id) >>, NoToken)
    /\ UNCHANGED << authVars, clock, wallet, projVars >>

(* DELETE /project/:projectId *)

Delete(token, id) ==
    /\ IF authenticateToken(token, clock) # 0
       THEN /\ resp' = Rejected("delete", authenticateToken(token, clock))
            /\ UNCHANGED projVars
       ELSE IF id = MalformedId
       THEN /\ resp' = Response("delete", 500, "error", << >>, NoToken)
            /\ UNCHANGED projVars
       ELSE IF findById(id) = NoDoc
       THEN /\ resp' = Response("delete", 404, "message", << >>, NoToken)
            /\ UNCHANGED projVars
       ELSE /\ projects' = projects \ {findById(id)}
            /\ deleted' = deleted \cup {id}
            /\ resp' = Response("delete", 200, "message", << >>, NoToken)
            /\ UNCHANGED << nextId, created, applied, lastSaved, pending >>
    /\ UNCHANGED << authVars, clock, wallet >>

(* POST /project *)

Create(token, body) ==
    /\ IF authenticateToken(token, clock) # 0
       THEN /\ resp' = Rejected("create", authenticateToken(token, clock))
            /\ UNCHANGED projVars
       ELSE LET doc == newProject(ObjectId(nextId + 1), body, token) IN
            /\ nextId < MaxProjects
            /\ projects' = projects \cup {doc}
            /\ nextId' = nextId + 1
            /\ created' = Append(created, [owner |-> token.userId, name |-> body.name])
            /\ applied' = Append(applied, {})
            /\ lastSaved' = Append(lastSaved, NoSave)
            /\ resp' = Response("create", 201, "project", << doc >>, NoToken)
            /\ UNCHANGED << deleted, pending >>
    /\ UNCHANGED << authVars, clock, wallet >>

(* PUT /project/:projectId, up to the result of findById *)

UpdateFind(token, id, body) ==
    /\ IF authenticateToken(token, clock) # 0
       THEN /\ resp' = Rejected("update", authenticateToken(token, clock))
            /\ UNCHANGED projVars
       ELSE IF id = MalformedId
       THEN /\ resp' = Response("update", 500, "error", << >>, NoToken)
            /\ UNCHANGED projVars
       ELSE IF findById(id) = NoDoc
       THEN /\ resp' = Response("update", 404, "error", << >>, NoToken)
            /\ UNCHANGED projVars
       ELSE /\ pending' = pending (+) SetToBag({[read |-> findById(id), body |-> body]})
            /\ UNCHANGED << resp, projects, nextId, created, deleted, applied, lastSaved >>
    /\ UNCHANGED << authVars, clock, wallet >>

(* PUT /project/:projectId, from the assignments to the response *)

UpdateSave(req) ==
    LET doc == assignCode(req.read, req.body)
        after == savedDoc(req.read, doc)
        n == IdNum(doc._id)
    IN
    /\ BagIn(req, pending)
    /\ pending' = pending (-) SetToBag({req})
    /\ IF after = NoDoc
       THEN /\ resp' = Response("update", 500, "error", << >>, NoToken)
            /\ UNCHANGED << projects, applied, lastSaved >>
       ELSE /\ projects' = (projects \ {findById(doc._id)}) \cup {after}
            /\ applied' = [applied EXCEPT ![n] = @ \cup {Requested(req.body)}]
            /\ lastSaved' = [lastSaved EXCEPT ![n] = Requested(req.body)]
            /\ resp' = Response("update", 200, "project", << doc >>, NoToken)
    /\ UNCHANGED << authVars, clock, wallet, nextId, created, deleted >>

(* Date.now() advances *)

Tick ==
    /\ clock' = clock + 1
    /\ UNCHANGED << authVars, wallet, projVars, resp >>

---------------------------------------------------------------------------
(* Two registered users *)

Ann ==
    [_id |-> ObjectId(1), username |-> "ann", email |-> "ann@x",
     password |-> bcryptHash("pw1", "s1")]

Bob ==
    [_id |-> ObjectId(2), username |-> "bob", email |-> "bob@x",
     password |-> bcryptHash("pw2", "s1")]

TwoUsers ==
    /\ users = << Ann, Bob >>
    /\ registered = << [email |-> "ann@x", password |-> "pw1"],
                       [email |-> "bob@x", password |-> "pw2"] >>

Issued(user, tick) == [token |-> jwtSign(user, JWT_SECRET, tick), at |-> tick]

\* An hour after Ann's first login: that token has expired, later ones have not
AnHourLater == ExpiresIn * TicksPerSec

\* What a client may send as its Authorization header
Presented ==
    {NoToken, GarbageToken, Issued(Ann, 0).token,
     [Issued(Ann, AnHourLater).token EXCEPT !.key = "another secret"]}
        \cup { w.token : w \in wallet }

\* The callers whose token the gate lets through
Callers == { t \in Presented : authenticateToken(t, clock) = 0 }

ProjectIds == { ObjectId(n) : n \in 1..MaxProjects } \cup {MalformedId}

SiteBody == Body("site", Absent, "<h1>", "", Absent)
BlogBody == Body("blog", ObjectId(1), Absent, Absent, Absent)
EmptyBody == Body(Absent, Absent, Absent, Absent, Absent)
PageBody == Body(Absent, Absent, "<h1>", "h1{}", Absent)

---------------------------------------------------------------------------
(* The expiry of a token: one client logs in, the clock runs *)

MaxClock == MaxLoginTick + (ExpiresIn + 1) * TicksPerSec

InitToken ==
    /\ TwoUsers
    /\ clock = 0
    /\ wallet = {}
    /\ projects = {}
    /\ nextId = 0
    /\ created = << >>
    /\ deleted = {}
    /\ applied = << >>
    /\ lastSaved = << >>
    /\ pending = EmptyBag
    /\ resp = NoResponse

NextToken ==
    \/ clock <= MaxLoginTick /\ Login("ann@x", "pw1")
    \/ \E w \in wallet : Protected(w.token)
    \/ clock < MaxClock /\ Tick

SpecToken == InitToken /\ [][NextToken]_vars

---------------------------------------------------------------------------
(* The project routes, an hour after Ann's first login *)

Init ==
    /\ TwoUsers
    /\ clock = AnHourLater
    /\ wallet = { Issued(Ann, AnHourLater), Issued(Bob, AnHourLater) }
    /\ projects = {}
    /\ nextId = 0
    /\ created = << >>
    /\ deleted = {}
    /\ applied = << >>
    /\ lastSaved = << >>
    /\ pending = EmptyBag
    /\ resp = NoResponse

\* PUT requests run one at a time here (SpecConc overlaps them), among the
\* other routes' requests
Next ==
    \/ \E t \in Callers : List(t)
    \/ \E t \in Callers, id \in ProjectIds : Get(t, id)
    \/ \E t \in Callers, id \in ProjectIds : Delete(t, id)
    \/ \E t \in Callers, b \in {SiteBody, BlogBody} : Create(t, b)
    \/ \E t \in Callers, id \in ProjectIds :
          pending = EmptyBag /\ UpdateFind(t, id, PageBody)
    \/ \E req \in BagToSet(pending) : UpdateSave(req)

Spec == Init /\ [][Next]_vars

---------------------------------------------------------------------------
(* The token gate: one client, with and without a token the gate accepts *)

InitGate ==
    /\ TwoUsers
    /\ clock = AnHourLater
    /\ wallet = { Issued(Ann, AnHourLater) }
    /\ projects = {}
    /\ nextId = 0
    /\ created = << >>
    /\ deleted = {}
    /\ applied = << >>
    /\ lastSaved = << >>
    /\ pending = EmptyBag
    /\ resp = NoResponse

NextGate ==
    \/ \E t \in Presented : Protected(t)
    \/ \E t \in Presented : List(t)
    \/ \E t \in Presented, id \in ProjectIds : Get(t, id)
    \/ \E t \in Presented, id \in ProjectIds : Delete(t, id)
    \/ \E t \in Presented : Create(t, SiteBody)
    \/ \E t \in Presented, id \in ProjectIds :
          pending = EmptyBag /\ UpdateFind(t, id, PageBody)
    \/ \E req \in BagToSet(pending) : UpdateSave(req)

SpecGate == InitGate /\ [][NextGate]_vars

---------------------------------------------------------------------------
(* Concurrent requests on one project: Ann's site, beside Bob's blog *)

Site == newProject(ObjectId(1), SiteBody, Issued(Ann, AnHourLater).token)
Blog == newProject(ObjectId(2), BlogBody, Issued(Bob, AnHourLater).token)

InitConc ==
    /\ TwoUsers
    /\ clock = AnHourLater
    /\ wallet = { Issued(Ann, AnHourLater), Issued(Bob, AnHourLater) }
    /\ projects = { Site, Blog }
    /\ nextId = 2
    /\ created = << [owner |-> Ann._id, name |-> "site"],
                    [owner |-> Bob._id, name |-> "blog"] >>
    /\ deleted = {}
    /\ applied = << {}, {} >>
    /\ lastSaved = << NoSave, NoSave >>
    /\ pending = EmptyBag
    /\ resp = Response("create", 201, "project", << Blog >>, NoToken)

NextConc ==
    \/ \E t \in Callers, b \in {EmptyBody, PageBody} :
          BagCardinality(pending) < MaxConcurrent /\ UpdateFind(t, Site._id, b)
    \/ \E req \in BagToSet(pending) : UpdateSave(req)
    \/ \E t \in Callers : Delete(t, Site._id)
    \/ \E t \in Callers : Get(t, Site._id)

SpecConc == InitConc /\ [][NextConc]_vars

---------------------------------------------------------------------------
(* The claims *)

\* Some protected route handles a request carrying token t
Handler(t) ==
    \/ Protected(t)
    \/ List(t)
    \/ \E id \in ProjectIds : Get(t, id) \/ Delete(t, id) \/ UpdateFind(t, id, PageBody)
    \/ Create(t, SiteBody)

\* A token that is malformed, wrongly signed or past its hour
BadToken(t) ==
    \/ t.form = "malformed"
    \/ t.form = "jwt" /\ t.key # JWT_SECRET
    \/ t.form = "jwt" /\ clock \div TicksPerSec >= t.iat + ExpiresIn

\* The response is the bare status, and nothing the handler would do is done
Refuses(status) ==
    /\ resp'.status = status
    /\ resp'.kind = "none"
    /\ resp'.docs = << >>
    /\ UNCHANGED << users, projects, pending, nextId >>

\* C1: on every protected route, a request without a token is answered 401 and
\* one with a malformed, wrongly signed or expired token 403; in both cases the
\* handler does not run: the stores are unchanged and no project is returned.
C1_GateRejects ==
    [][ \A t \in Presented : Handler(t) =>
            /\ t = NoToken => Refuses(401)
            /\ BadToken(t) => Refuses(403) ]_vars

C1_Witness ==
    /\ resp.op = "delete"
    /\ resp.status = 403
    /\ projects # {}

\* C2: register(username, email, password) followed by login(email, password)
\* succeeds with a token whose owner id is the _id of the record that register
\* created, whatever records the User collection already holds.
C2_RegisterThenLogin ==
    [][ \A i \in 1..Len(registered) :
            Login(registered[i].email, registered[i].password) =>
                /\ resp'.status = 200
                /\ resp'.kind = "token"
                /\ resp'.token.userId = users[i]._id ]_vars

\* C3: login with a registered user's email and another password than the one
\* registered is answered 401, login with an email no record has is answered
\* 404; neither returns a token nor changes the User collection.
C3_LoginFailures ==
    [][ \A e \in Emails, p \in Passwords : Login(e, p) =>
            /\ (\E i \in 1..Len(registered) :
                    registered[i].email = e /\ registered[i].password # p)
                  => resp'.status = 401 /\ resp'.token = NoToken /\ users' = users
            /\ (\A i \in 1..Len(registered) : registered[i].email # e)
                  => resp'.status = 404 /\ resp'.token = NoToken /\ users' = users ]_vars

\* C4, as claimed: a token issued at tick `at` is accepted at every tick before
\* at + 1 hour and refused (403) from at + 1 hour on.
C4_HourFromIssuance ==
    [][ \A w \in wallet : Protected(w.token) =>
            /\ resp'.status \in {200, 403}
            /\ resp'.status = 200 <=> clock < w.at + ExpiresIn * TicksPerSec ]_vars

\* C4, amended: the hour runs from the whole second of issuance: a token issued
\* at tick `at` is accepted while the clock's whole second is less than at's
\* whole second + 3600, refused with 403 from then on, and once a held token
\* has expired it stays expired.
C4_HourFromIssuanceSecond ==
    [][ /\ \A w \in wallet : Protected(w.token) =>
              /\ resp'.status \in {200, 403}
              /\ resp'.status = 200 <=>
                    clock \div TicksPerSec < (w.at \div TicksPerSec) + ExpiresIn
        /\ \A w \in wallet :
              authenticateToken(w.token, clock) = 403
                  => authenticateToken(w.token, clock') = 403 ]_vars

C4_Witness ==
    /\ resp.op = "protected"
    /\ resp.status = 403
    /\ \E w \in wallet :
          /\ clock \div TicksPerSec = (w.at \div TicksPerSec) + ExpiresIn
          /\ clock < w.at + ExpiresIn * TicksPerSec

\* Every stored project has the owner and the name its create recorded
OwnerAndNameAsCreated ==
    \A d \in projects :
        /\ d.userId = created[IdNum(d._id)].owner
        /\ d.name = created[IdNum(d._id)].name

\* C5: every stored project's owner id is the owner id in the token of the
\* caller whose create produced it, whatever owner the body named, and its name
\* is the name given at creation; no request changes either of a stored project.
C5_OwnerAndNameFixed ==
    [][ /\ OwnerAndNameAsCreated'
        /\ \A d \in projects : \A e \in projects' :
              e._id = d._id => e.userId = d.userId /\ e.name = d.name ]_vars

C5_Witness ==
    \E d \in projects :
        /\ d.name = "blog"
        /\ d.userId = Bob._id
        /\ BlogBody.userId = Ann._id
        /\ lastSaved[IdNum(d._id)] # NoSave

C7_DeleteThenGetNotFound ==
    [][ \A t \in Callers, id \in ProjectIds \ {MalformedId} :
            /\ Delete(t, id) =>
                  IF findById(id) = NoDoc
                  THEN resp'.status = 404 /\ projects' = projects
                  ELSE resp'.status = 200 /\ projects' = projects \ {findById(id)}
            /\ Get(t, id) /\ id \in deleted =>
                  resp'.status = 404 ]_vars

\* C8: GET /projects returns exactly the caller's stored projects, the one
\* created later before the one created earlier.
C8_ListNewestFirst ==
    [][ \A t \in Callers : List(t) =>
            LET found == resp'.docs IN
            /\ resp'.status = 200
            /\ Len(found) = Cardinality({ d \in projects : d.userId = t.userId })
            /\ { found[i] : i \in 1..Len(found) } = { d \in projects : d.userId = t.userId }
            /\ \A i, j \in 1..Len(found) :
                  i < j => IdNum(found[i]._id) > IdNum(found[j]._id) ]_vars

\* C9, as claimed: once the PUTs on a project have all answered, its three code
\* fields together are those the PUT that saved last asked for.
C9_LastSaveWinsWhole ==
    \A d \in projects :
        pending = EmptyBag /\ lastSaved[IdNum(d._id)] # NoSave
            => Code(d) = lastSaved[IdNum(d._id)]

\* C9, amended: last write wins field by field: once a PUT has saved a project,
\* each of its three code fields holds the value one of the PUTs that saved it
\* asked for (never the value from before them), but the three may come from
\* different PUTs.
C9_LastSaveWinsPerField ==
    \A d \in projects :
        applied[IdNum(d._id)] # {} =>
            \A f \in CodeFields : d[f] \in { b[f] : b \in applied[IdNum(d._id)] }

C9_Witness ==
    /\ pending = EmptyBag
    /\ applied[1] = { Requested(EmptyBody), Requested(PageBody) }
    /\ \E d \in projects :
          /\ d._id = Site._id
          /\ Code(d) \notin applied[1]

\* C10: once a DELETE of an _id has answered 200, no later state stores that
\* _id (a PUT that read the project before does not put it back when it saves),
\* and that PUT does not answer 200.
C10_DeleteNotUndone ==
    [][ /\ \A id \in deleted' : findIn(projects', id) = NoDoc
        /\ \A req \in BagToSet(pending) :
              UpdateSave(req) /\ req.read._id \in deleted => resp'.status = 500 ]_vars

C10_Witness ==
    /\ Site._id \in deleted
    /\ resp.op = "update"
    /\ resp.status = 500
    /\ pending = EmptyBag

=============================================================================
